---- MODULE Spec2Model ----
(***************************************************************************)
(* Lateral control-law core: PIDController and MultiIntegralPIDController  *)
(* (common/pid.py), LateralErrorPI (selfdrive/controls/lib/                *)
(* pid_lateral_error.py) and LatControlTorque (selfdrive/controls/lib/     *)
(* latcontrol_torque.py).                                                  *)
(*                                                                         *)
(* Numbers.  The code computes in floating point; the model computes in    *)
(* fixed point over the integers, with the controllers built with rate = 1 *)
(* so that i_rate = 1/rate is exactly 1.  One session drives one           *)
(* controller object: cls says which class was built.                      *)
(***************************************************************************)
EXTENDS Integers, Sequences, FiniteSets, TLC

VARIABLES
  cls,    \* which class this session built: "pid", "multi", "lpi", "torque"
  pid,    \* the PIDController object (also LatControlTorque.pid)
  mpid,   \* the MultiIntegralPIDController object
  lpi,    \* the LateralErrorPI object
  lat,    \* the LatControlTorque object and what its last update returned
  last,   \* the last call made on the object: its name and its arguments
  fresh   \* a second object, built anew with the same gains and limits each
          \* time the first is reset(), and given the same calls since

vars == <<cls, pid, mpid, lpi, lat, last, fresh>>

(***************************************************************************)
(* Bounds of the model.                                                    *)
(***************************************************************************)
\* errors passed to PIDController.update are -MaxErr..MaxErr
MaxErr == 1
\* an update whose integral would leave -MaxI..MaxI is not taken
MaxI == 8
\* errors passed to MultiIntegralPIDController.update
MaxMultiErr == 1
\* the longest k_i list MultiIntegralPIDController is built with
MaxN == 2
\* an update that takes an integrator state out of -MaxIntegral..MaxIntegral
\* is not taken
MaxIntegral == 2
\* errors passed to LateralErrorPI.update, in tenths
MaxLatErr == 1
\* an update that takes e or e_dot out of -MaxE..MaxE (tenths) is not taken
MaxE == 3
\* desired curvatures passed to LatControlTorque.update
MaxCurv == 1
\* an update that takes the internal PID's integral out of
\* -MaxTorqueI..MaxTorqueI is not taken
MaxTorqueI == 50
\* the friction torques update_live_torque_params sets are 0..MaxFriction
MaxFriction == 1
\* self.steer_max of the session's LatControlTorque
StMax == 10

(***************************************************************************)
(* Arithmetic helpers.                                                     *)
(***************************************************************************)
Min(a, b) == IF a <= b THEN a ELSE b

Max(a, b) == IF a >= b THEN a ELSE b

Abs(a) == IF a < 0 THEN -a ELSE a

\* np.sign
Sign(a) == IF a > 0 THEN 1 ELSE IF a < 0 THEN -1 ELSE 0

\* variant: a clip that forgets the upper limit
NpClipNoUpper(x, lo, hi) == Max(x, lo)

\* np.clip(x, lo, hi) = minimum(maximum(x, lo), hi); with lo > hi it gives hi
NpClip(x, lo, hi) == Min(Max(x, lo), hi)

\* np.interp(x, xs, ys): clamped below xs[1] and above xs[Len(xs)], linear
\* between two breakpoints.  A gain table is the pair <<xs, ys>>.
RECURSIVE InterpFrom(_, _, _, _)
InterpFrom(x, xs, ys, j) ==
  IF j >= Len(xs) THEN ys[Len(xs)]
  ELSE IF x < xs[j + 1]
       THEN ys[j] + ((ys[j + 1] - ys[j]) * (x - xs[j])) \div (xs[j + 1] - xs[j])
       ELSE InterpFrom(x, xs, ys, j + 1)

NpInterp(x, xs, ys) ==
  IF x <= xs[1] THEN ys[1]
  ELSE IF x >= xs[Len(xs)] THEN ys[Len(xs)]
  ELSE InterpFrom(x, xs, ys, 1)

\* a scalar gain k becomes the one-point table [[0], [k]]
Table(k) == <<(<<0>>), (<<k>>)>>

(***************************************************************************)
(* PIDController (common/pid.py).                                          *)
(***************************************************************************)
\* self.i_rate = 1.0 / rate, for rate = 1
I_RATE == 1

\* variant: a reset() that leaves the integral
PIDResetNoI(s) == [s EXCEPT !.p = 0, !.d = 0, !.f = 0, !.control = 0]

\* the state reset() writes
PIDReset(s) == [s EXCEPT !.p = 0, !.i = 0, !.d = 0, !.f = 0, !.control = 0]

\* __init__: the gains (scalars turned into tables by the caller of this
\* operator with Table), set_limits, i_rate, speed = 0.0 and the reset() fields
PIDNew(k_p, k_i, k_f, k_d, pos_limit, neg_limit) ==
  [k_p |-> k_p, k_i |-> k_i, k_d |-> k_d, k_f |-> k_f,
   pos_limit |-> pos_limit, neg_limit |-> neg_limit,
   i_rate |-> I_RATE, speed |-> 0,
   p |-> 0, i |-> 0, d |-> 0, f |-> 0, control |-> 0]

\* the properties k_p, k_i, k_d
PID_k_p(s) == NpInterp(s.speed, s.k_p[1], s.k_p[2])

PID_k_i(s) == NpInterp(s.speed, s.k_i[1], s.k_i[2])

PID_k_d(s) == NpInterp(s.speed, s.k_d[1], s.k_d[2])

\* variant: a set_limits that clamps the integral to the new pair
PIDSetLimitsClamping(s, pos_limit, neg_limit) ==
  [s EXCEPT !.pos_limit = pos_limit, !.neg_limit = neg_limit,
            !.i = NpClip(s.i, neg_limit, pos_limit)]

PIDSetLimits(s, pos_limit, neg_limit) ==
  [s EXCEPT !.pos_limit = pos_limit, !.neg_limit = neg_limit]

\* the tentative total of update's anti-windup test (line 57), for the object
\* s1 whose speed, p, f and d update has already written, and integral i0
PIDTestControl(s1, i0, error) ==
  s1.p + (i0 + error * PID_k_i(s1) * s1.i_rate) + s1.d + s1.f

\* variant: an integrator step without the anti-windup bounds
PIDIntegrateNoWindupGuard(s1, error) == s1.i + error * PID_k_i(s1) * s1.i_rate

\* variant: an integrator that ignores freeze_integrator
PIDIntegrateFrozenIgnored(s1, error, freeze_integrator) ==
  LET i == s1.i + error * PID_k_i(s1) * s1.i_rate
      test_control == s1.p + i + s1.d + s1.f
      i_upperbound == IF test_control > s1.pos_limit THEN s1.i ELSE s1.pos_limit
      i_lowerbound == IF test_control < s1.neg_limit THEN s1.i ELSE s1.neg_limit
  IN  NpClip(i, i_lowerbound, i_upperbound)

\* variant: an integrator step that always holds the integral
PIDAntiWindupHeld(s1, error) ==
  LET i == s1.i + error * PID_k_i(s1) * s1.i_rate
  IN  NpClip(i, s1.i, s1.i)

\* lines 53-60: the integral after the (unfrozen) integrator step
PIDAntiWindup(s1, error) ==
  LET i == s1.i + error * PID_k_i(s1) * s1.i_rate
      test_control == s1.p + i + s1.d + s1.f
      i_upperbound == IF test_control > s1.pos_limit THEN s1.i ELSE s1.pos_limit
      i_lowerbound == IF test_control < s1.neg_limit THEN s1.i ELSE s1.neg_limit
  IN  NpClip(i, i_lowerbound, i_upperbound)

PIDIntegrate(s1, error, freeze_integrator) ==
  IF ~freeze_integrator THEN PIDAntiWindup(s1, error) ELSE s1.i

\* update(error, error_rate, speed, feedforward, freeze_integrator)
PIDUpdate(s, error, error_rate, speed, feedforward, freeze_integrator) ==
  LET s0 == [s EXCEPT !.speed = speed]
      s1 == [s0 EXCEPT !.p = error * PID_k_p(s0),
                       !.f = feedforward * s0.k_f,
                       !.d = error_rate * PID_k_d(s0)]
      s2 == [s1 EXCEPT !.i = PIDIntegrate(s1, error, freeze_integrator)]
      control == s2.p + s2.i + s2.d + s2.f
  IN  [s2 EXCEPT !.control = NpClip(control, s2.neg_limit, s2.pos_limit)]

(***************************************************************************)
(* MultiIntegralPIDController (common/pid.py).                             *)
(*                                                                         *)
(* The k_i argument of __init__ is [kind, items]: kind is the Python type  *)
(* of the argument ("list", "tuple", or "number" for a bare scalar) and    *)
(* items its elements, each a number [num |-> TRUE, v |-> k] or a table    *)
(* [num |-> FALSE, v |-> <<xs, ys>>].                                      *)
(***************************************************************************)
\* an object __init__ has not run on yet
Unbuilt == [status |-> "new"]

\* lines 88-94: every element of k_i as a table
KiTables(items) ==
  [j \in 1..Len(items) |->
     IF items[j].num THEN Table(items[j].v) ELSE items[j].v]

MultiReset(s) ==
  [s EXCEPT !.p = 0, !.d = 0, !.f = 0, !.i = 0, !.control = 0,
            !.error_integral = [j \in 1..s.n_integrators |-> 0]]

\* variant: an __init__ that does not refuse an empty k_i
MultiNewAcceptsEmpty(k_p, k_i, k_f, k_d, pos_limit, neg_limit) ==
  IF k_i.kind \notin {"list", "tuple"}
  THEN [status |-> "error"]
  ELSE [status |-> "ok",
        k_p |-> k_p, k_d |-> k_d, k_f |-> k_f,
        k_i_list |-> KiTables(k_i.items), n_integrators |-> Len(k_i.items),
        pos_limit |-> pos_limit, neg_limit |-> neg_limit,
        i_rate |-> I_RATE, speed |-> 0,
        p |-> 0, d |-> 0, f |-> 0, i |-> 0, control |-> 0,
        error_integral |-> [j \in 1..Len(k_i.items) |-> 0]]

\* __init__: ValueError for a k_i that is no list or tuple, or is empty;
\* otherwise the gains, n_integrators, the limits, i_rate, speed and reset()
MultiNew(k_p, k_i, k_f, k_d, pos_limit, neg_limit) ==
  IF k_i.kind \notin {"list", "tuple"} \/ k_i.items = <<>>
  THEN [status |-> "error"]
  ELSE [status |-> "ok",
        k_p |-> k_p, k_d |-> k_d, k_f |-> k_f,
        k_i_list |-> KiTables(k_i.items), n_integrators |-> Len(k_i.items),
        pos_limit |-> pos_limit, neg_limit |-> neg_limit,
        i_rate |-> I_RATE, speed |-> 0,
        p |-> 0, d |-> 0, f |-> 0, i |-> 0, control |-> 0,
        error_integral |-> [j \in 1..Len(k_i.items) |-> 0]]

Multi_k_p(s) == NpInterp(s.speed, s.k_p[1], s.k_p[2])

Multi_k_d(s) == NpInterp(s.speed, s.k_d[1], s.k_d[2])

Multi_k_i(s) ==
  [j \in 1..Len(s.k_i_list) |-> NpInterp(s.speed, s.k_i_list[j][1], s.k_i_list[j][2])]

MultiSetLimits(s, pos_limit, neg_limit) ==
  [s EXCEPT !.pos_limit = pos_limit, !.neg_limit = neg_limit]

\* variant: integrator j is fed the value integrator j-1 had before the call
CascadeParallel(integrals, signal, i_rate, j) ==
  [k \in 1..Len(integrals) |->
     integrals[k] + (IF k = 1 THEN signal ELSE integrals[k - 1]) * i_rate]

\* lines 141-149: the cascade; integrator j is fed the new value of j-1
RECURSIVE Cascade(_, _, _, _)
Cascade(integrals, signal, i_rate, j) ==
  IF j > Len(integrals) THEN <<>>
  ELSE LET new_val == integrals[j] + signal * i_rate
       IN  <<new_val>> \o Cascade(integrals, new_val, i_rate, j + 1)

\* sum(k * i for k, i in zip(ks, is))
RECURSIVE Dot(_, _)
Dot(ks, is) ==
  IF ks = <<>> THEN 0 ELSE ks[1] * is[1] + Dot(Tail(ks), Tail(is))

\* line 156, for the object s1 whose speed, p, d and f update has written
MultiWithinLimits(s1, new_integrals) ==
  LET test_control == s1.p + s1.d + s1.f + Dot(Multi_k_i(s1), new_integrals)
  IN  test_control <= s1.pos_limit /\ test_control >= s1.neg_limit

\* variant: on saturation, the first integrator still advances
MultiIntegratePartial(s1, error, freeze_integrator) ==
  LET new_integrals == Cascade(s1.error_integral, error, s1.i_rate, 1)
  IN  IF ~freeze_integrator /\ s1.n_integrators > 0
      THEN IF MultiWithinLimits(s1, new_integrals)
           THEN new_integrals
           ELSE [s1.error_integral EXCEPT ![1] = new_integrals[1]]
      ELSE s1.error_integral

\* lines 139-158: the integrator states after the call
MultiIntegrate(s1, error, freeze_integrator) ==
  LET new_integrals == Cascade(s1.error_integral, error, s1.i_rate, 1)
  IN  IF ~freeze_integrator /\ s1.n_integrators > 0
      THEN IF MultiWithinLimits(s1, new_integrals)
           THEN new_integrals
           ELSE s1.error_integral
      ELSE s1.error_integral

MultiUpdate(s, error, error_rate, speed, feedforward, freeze_integrator) ==
  LET s0 == [s EXCEPT !.speed = speed]
      s1 == [s0 EXCEPT !.p = error * Multi_k_p(s0),
                       !.d = error_rate * Multi_k_d(s0),
                       !.f = feedforward * s0.k_f]
      s2 == [s1 EXCEPT !.error_integral = MultiIntegrate(s1, error, freeze_integrator)]
      s3 == [s2 EXCEPT !.i = Dot(Multi_k_i(s2), s2.error_integral)]
      control == s3.p + s3.d + s3.f + s3.i
  IN  [s3 EXCEPT !.control = NpClip(control, s3.neg_limit, s3.pos_limit)]

(***************************************************************************)
(* LateralErrorPI (selfdrive/controls/lib/pid_lateral_error.py).           *)
(*                                                                         *)
(* Fixed point: e, e_dot and the error are in tenths; a gain is in         *)
(* thousandths (GainScale), a squared gain such as k_ii in millionths;     *)
(* p, i, d, f, control and the limits are in units of                      *)
(* 1/(10 * GainScale^2).  yaw_rate is a whole number.                      *)
(***************************************************************************)
\* the fixed-point scale of a gain: 1.0 is GainScale
GainScale == 1000

\* self.i_unwind_rate = 0.3 / rate, in tenths, for rate = 1
I_UNWIND_RATE == 3

\* clip and interp of common/numpy_fast.py
FastClip(x, lo, hi) == Max(lo, Min(hi, x))

FastInterp(x, xs, ys) == NpInterp(x, xs, ys)

\* x ** 0.5, rounded down
RECURSIVE Newton(_, _)
Newton(n, x) ==
  LET y == (x + n \div x) \div 2
  IN  IF y >= x THEN x ELSE Newton(n, y)

Sqrt(n) == IF n <= 0 THEN 0 ELSE Newton(n, n)

LPIReset(s) ==
  [s EXCEPT !.p = 0, !.e = 0, !.e_dot = 0, !.d = 0, !.f = 0, !.control = 0]

\* __init__; i is not an attribute until update writes it (0 stands for that)
LPINew(k_p, k_i, k_f, k_d, pos_limit, neg_limit) ==
  [k_p |-> k_p, k_i |-> k_i, k_d |-> k_d, k_f |-> k_f,
   pos_limit |-> pos_limit, neg_limit |-> neg_limit,
   i_unwind_rate |-> I_UNWIND_RATE, i_rate |-> I_RATE, speed |-> 0,
   p |-> 0, e |-> 0, e_dot |-> 0, d |-> 0, f |-> 0, i |-> 0, control |-> 0]

LPI_k_p(s) == FastInterp(s.speed, s.k_p[1], s.k_p[2])

LPI_old_k_i(s) == FastInterp(s.speed, s.k_i[1], s.k_i[2])

LPI_k_d(s) == FastInterp(s.speed, s.k_d[1], s.k_d[2])

\* variant: gains derived without the division by 1 + alpha/4
LPI_k_i__and__k_iiUndivided(s) ==
  LET k_i_squared == LPI_old_k_i(s) * LPI_old_k_i(s)
      k_i == Sqrt(k_i_squared)
      k_ii == k_i_squared \div 16
  IN  <<k_i, k_ii>>

\* k_i__and__k_ii with alpha = 0.25: 1 + alpha/4 = 17/16 and alpha/4 = 1/16.
\* k_i is in thousandths, k_ii in millionths.
LPI_k_i__and__k_ii(s) ==
  LET k_i_squared == (LPI_old_k_i(s) * LPI_old_k_i(s) * 16) \div 17
      k_i == Sqrt(k_i_squared)
      k_ii == k_i_squared \div 16
  IN  <<k_i, k_ii>>

\* the integral term e * k_ii + e_dot * k_i of line 103
LPIIntegralTerm(s, e, e_dot) ==
  LET g == LPI_k_i__and__k_ii(s)
  IN  e * g[2] + e_dot * g[1] * GainScale

\* variant: an override branch that still makes the integral term
LPIUnwindWithIntegral(s) ==
  [s EXCEPT !.e = s.e - s.i_unwind_rate * Sign(s.e),
            !.e_dot = s.e_dot - s.i_unwind_rate * Sign(s.e_dot),
            !.i = LPIIntegralTerm(s, s.e, s.e_dot)]

\* lines 91-93: the override branch
LPIUnwind(s) ==
  [s EXCEPT !.e = s.e - s.i_unwind_rate * Sign(s.e),
            !.e_dot = s.e_dot - s.i_unwind_rate * Sign(s.e_dot)]

\* variant: reset_integrator read only after the commit test
LPIIntegrateResetLast(s1, error, yaw_rate, freeze_integrator, reset_integrator) ==
  LET e == s1.e + s1.e_dot * s1.i_rate
      e_dot == s1.e_dot + (-(yaw_rate * yaw_rate) * e + error) * s1.i_rate
      s2 == [s1 EXCEPT !.i = LPIIntegralTerm(s1, s1.e, s1.e_dot)]
      control == s2.p + s2.i + s2.d + s2.f
      e_rot == s1.e + s1.e_dot * s1.i_rate
      e_dot_rot == s1.e_dot - (yaw_rate * yaw_rate) * e_rot * s1.i_rate
  IN  IF (\/ error >= 0 /\ (control <= s2.pos_limit \/ s2.i < 0)
          \/ error <= 0 /\ (control >= s2.neg_limit \/ s2.i > 0))
         /\ ~freeze_integrator
      THEN [s2 EXCEPT !.e = e, !.e_dot = e_dot]
      ELSE IF reset_integrator
      THEN [s2 EXCEPT !.e = 0, !.e_dot = 0]
      ELSE [s2 EXCEPT !.e = e_rot, !.e_dot = e_dot_rot]

\* variant: a state that is held when the forced advance is not committed
LPIIntegrateHold(s1, error, yaw_rate, freeze_integrator, reset_integrator) ==
  LET e == s1.e + s1.e_dot * s1.i_rate
      e_dot == s1.e_dot + (-(yaw_rate * yaw_rate) * e + error) * s1.i_rate
      s2 == [s1 EXCEPT !.i = LPIIntegralTerm(s1, s1.e, s1.e_dot)]
      control == s2.p + s2.i + s2.d + s2.f
  IN  IF reset_integrator
      THEN [s2 EXCEPT !.e = 0, !.e_dot = 0]
      ELSE IF (\/ error >= 0 /\ (control <= s2.pos_limit \/ s2.i < 0)
               \/ error <= 0 /\ (control >= s2.neg_limit \/ s2.i > 0))
              /\ ~freeze_integrator
      THEN [s2 EXCEPT !.e = e, !.e_dot = e_dot]
      ELSE s2

\* lines 95-122: the branch taken without override, for the object s1 whose
\* speed, p, f, d and i = 0 update has written
LPIIntegrate(s1, error, yaw_rate, freeze_integrator, reset_integrator) ==
  LET e == s1.e + s1.e_dot * s1.i_rate
      e_dot == s1.e_dot + (-(yaw_rate * yaw_rate) * e + error) * s1.i_rate
      s2 == [s1 EXCEPT !.i = LPIIntegralTerm(s1, s1.e, s1.e_dot)]
      control == s2.p + s2.i + s2.d + s2.f
      e_rot == s1.e + s1.e_dot * s1.i_rate
      e_dot_rot == s1.e_dot - (yaw_rate * yaw_rate) * e_rot * s1.i_rate
  IN  IF reset_integrator
      THEN [s2 EXCEPT !.e = 0, !.e_dot = 0]
      ELSE IF (\/ error >= 0 /\ (control <= s2.pos_limit \/ s2.i < 0)
               \/ error <= 0 /\ (control >= s2.neg_limit \/ s2.i > 0))
              /\ ~freeze_integrator
      THEN [s2 EXCEPT !.e = e, !.e_dot = e_dot]
      ELSE [s2 EXCEPT !.e = e_rot, !.e_dot = e_dot_rot]

\* update(error, yaw_rate, error_rate, speed, override, feedforward,
\*        freeze_integrator, reset_integrator)
LPIUpdate(s, error, yaw_rate, error_rate, speed, override, feedforward, freeze_integrator, reset_integrator) ==
  LET s0 == [s EXCEPT !.speed = speed]
      s1 == [s0 EXCEPT !.p = error * LPI_k_p(s0) * GainScale,
                       !.f = feedforward * s0.k_f * GainScale,
                       !.d = error_rate * LPI_k_d(s0) * GainScale,
                       !.i = 0]
      s2 == IF override THEN LPIUnwind(s1)
            ELSE LPIIntegrate(s1, error, yaw_rate, freeze_integrator, reset_integrator)
      control == s2.p + s2.i + s2.d + s2.f
  IN  [s2 EXCEPT !.control = FastClip(control, s2.neg_limit, s2.pos_limit)]

(***************************************************************************)
(* LatControlTorque (selfdrive/controls/lib/latcontrol_torque.py).         *)
(*                                                                         *)
(* The vehicle model (VM.calc_curvature), the localizer (llk) and the car  *)
(* interface's torque curve (torque_from_lateral_accel) are collaborators  *)
(* outside this code: what they return is an input of update.  Speeds,     *)
(* curvatures, accelerations, jerks and torques are whole numbers.         *)
(***************************************************************************)
\* pos_limit = 1e308 of the internal PID: larger than any value it reaches
HUGE == 1000000

\* self.relaxation_time
RELAXATION_TIME == 2

\* selfdrive/car/interfaces.py: the error at which friction is fully applied
FRICTION_THRESHOLD == 1

\* the speed below which update freezes the integrator
FREEZE_SPEED == 5

\* selfdrive/controls/lib/drive_helpers.py: zero inside the deadzone
ApplyCenterDeadzone(error, deadzone) ==
  IF error > -deadzone /\ error < deadzone THEN 0 ELSE error

\* selfdrive/controls/lib/drive_helpers.py: the friction torque, of the sign
\* of the error and at most torque_params.friction in size
GetFriction(lateral_accel_error, lateral_accel_deadzone, friction_threshold, friction, friction_compensation) ==
  IF friction_compensation
  THEN FastInterp(ApplyCenterDeadzone(lateral_accel_error, lateral_accel_deadzone),
                  <<-friction_threshold, friction_threshold>>, <<-friction, friction>>)
  ELSE 0

\* __init__: the internal PID has scalar gains, no derivative gain and the
\* limits +-1e308
LatPIDNew(kp, ki, kf) == PIDNew(Table(kp), Table(ki), kf, Table(0), HUGE, -HUGE)

LatNew(use_steering_angle, steer_max, friction) ==
  [use_steering_angle |-> use_steering_angle, steer_max |-> steer_max,
   friction |-> friction, relaxation_time |-> RELAXATION_TIME,
   active |-> FALSE, output |-> 0, second |-> 0]

\* update_live_torque_params
LatUpdateLiveTorqueParams(l, friction) == [l EXCEPT !.friction = friction]

\* get_steer_from_desired_jerk: feedback_term is f(a) and gain is f'(a), both
\* as get_torque returned them
GetSteerFromDesiredJerk(desired_jerk, relaxation_time, feedback_term, gain) ==
  feedback_term + (gain * relaxation_time) * desired_jerk

\* line 109 and lines 103-110: the curvature the controller takes as actual
LatActualCurvature(l, vEgo, curv_vm, curv_llk) ==
  IF l.use_steering_angle THEN curv_vm
  ELSE FastInterp(vEgo, <<2, 5>>, <<curv_vm, curv_llk>>)

\* variant: a freeze test without the low-speed condition
LatFreezeNoSpeed(steer_limited, steeringPressed, vEgo) ==
  steer_limited \/ steeringPressed

\* line 121
LatFreeze(steer_limited, steeringPressed, vEgo) ==
  steer_limited \/ steeringPressed \/ vEgo < FREEZE_SPEED

\* lines 113-120: pid_log.error, the lateral acceleration error
LatError(l, vEgo, desired_curvature, curv_vm, curv_llk) ==
  desired_curvature * vEgo * vEgo
    - LatActualCurvature(l, vEgo, curv_vm, curv_llk) * vEgo * vEgo

\* lines 128-135: the clipped steer plus the friction torque
LatOutputTorque(l, steer, error, deadzone) ==
  FastClip(steer, -l.steer_max, l.steer_max)
    + GetFriction(error, deadzone, FRICTION_THRESHOLD, l.friction, TRUE)

\* variant: an update that resets the internal PID when not active
LatUpdateResetsInactive(l, s, active, vEgo, steeringPressed, steer_limited, desired_curvature, desired_curvature_rate, curv_vm, curv_llk, curv_deadzone, feedback_term, gain) ==
  IF ~active
  THEN <<[l EXCEPT !.active = FALSE, !.output = -0, !.second = 0], PIDReset(s)>>
  ELSE
    LET actual_curvature == LatActualCurvature(l, vEgo, curv_vm, curv_llk)
        curvature_deadzone == IF l.use_steering_angle THEN Abs(curv_deadzone) ELSE 0
        actual_lateral_accel == actual_curvature * vEgo * vEgo
        desired_lateral_accel == desired_curvature * vEgo * vEgo
        feedforward_jerk == desired_curvature_rate * vEgo * vEgo
        error == desired_lateral_accel - actual_lateral_accel
        freeze_integrator == LatFreeze(steer_limited, steeringPressed, vEgo)
        s1 == PIDUpdate(s, error, 0, vEgo, 0, freeze_integrator)
        feedback_jerk == s1.control
        steer == GetSteerFromDesiredJerk(feedforward_jerk + feedback_jerk,
                                         l.relaxation_time, feedback_term, gain)
        output_torque == LatOutputTorque(l, steer, error, curvature_deadzone * vEgo * vEgo)
    IN  <<[l EXCEPT !.active = TRUE, !.output = -output_torque, !.second = 0], s1>>

\* update: the pair <<object, internal PID>> after the call; output is the
\* first value returned (-output_torque), second the other (0.0)
LatUpdate(l, s, active, vEgo, steeringPressed, steer_limited, desired_curvature, desired_curvature_rate, curv_vm, curv_llk, curv_deadzone, feedback_term, gain) ==
  IF ~active
  THEN <<[l EXCEPT !.active = FALSE, !.output = -0, !.second = 0], s>>
  ELSE
    LET actual_curvature == LatActualCurvature(l, vEgo, curv_vm, curv_llk)
        curvature_deadzone == IF l.use_steering_angle THEN Abs(curv_deadzone) ELSE 0
        actual_lateral_accel == actual_curvature * vEgo * vEgo
        desired_lateral_accel == desired_curvature * vEgo * vEgo
        feedforward_jerk == desired_curvature_rate * vEgo * vEgo
        error == desired_lateral_accel - actual_lateral_accel
        freeze_integrator == LatFreeze(steer_limited, steeringPressed, vEgo)
        s1 == PIDUpdate(s, error, 0, vEgo, 0, freeze_integrator)
        feedback_jerk == s1.control
        steer == GetSteerFromDesiredJerk(feedforward_jerk + feedback_jerk,
                                         l.relaxation_time, feedback_term, gain)
        output_torque == LatOutputTorque(l, steer, error, curvature_deadzone * vEgo * vEgo)
    IN  <<[l EXCEPT !.active = TRUE, !.output = -output_torque, !.second = 0], s1>>

(***************************************************************************)
(* The calls of a session.  last records the call just made: its name, and *)
(* the arguments the properties below speak of.  For LatControlTorque,     *)
(* error is pid_log.error and arg is <<steer_limited, CS.steeringPressed,  *)
(* CS.vEgo>>; for LateralErrorPI, arg is yaw_rate.  For                    *)
(* MultiIntegralPIDController, run is the number of updates since __init__ *)
(* or reset() when each of them had error 1, was not frozen and did not    *)
(* reach the limits, and -1 otherwise.                                     *)
(***************************************************************************)
NoCall ==
  [op |-> "init", error |-> 0, freeze |-> FALSE, override |-> FALSE,
   reset_integrator |-> FALSE, active |-> FALSE, arg |-> 0, run |-> 0]

\* the limit pairs a caller passes: (pos_limit, neg_limit)
LimitPairs == {<<2, -2>>, <<5, -5>>, <<-1, 1>>}

\* the speeds passed to update: the k_p table of InitPID has breakpoints 0, 2
Speeds == {0, 1, 2}

\* the (error_rate, feedforward) pairs passed to update
RateAndFeedforward == {<<0, 0>>, <<1, 0>>, <<0, -1>>}

InitPID ==
  /\ cls = "pid"
  /\ \E lim \in LimitPairs :
       pid = PIDNew(<<(<<0, 2>>), (<<1, 5>>)>>, Table(1), 1, Table(1), lim[1], lim[2])
  /\ mpid = 0 /\ lpi = 0 /\ lat = 0
  /\ fresh = pid
  /\ last = NoCall

PIDUpdateCall ==
  /\ cls = "pid"
  /\ \E error \in -MaxErr..MaxErr, rf \in RateAndFeedforward, speed \in Speeds,
        freeze_integrator \in BOOLEAN :
       /\ pid' = PIDUpdate(pid, error, rf[1], speed, rf[2], freeze_integrator)
       /\ fresh' = PIDUpdate(fresh, error, rf[1], speed, rf[2], freeze_integrator)
       /\ last' = [NoCall EXCEPT !.op = "update", !.error = error,
                                 !.freeze = freeze_integrator]
  /\ Abs(pid'.i) <= MaxI
  /\ UNCHANGED <<cls, mpid, lpi, lat>>

PIDResetCall ==
  /\ cls = "pid"
  /\ pid' = PIDReset(pid)
  /\ fresh' = PIDNew(pid.k_p, pid.k_i, pid.k_f, pid.k_d, pid.pos_limit, pid.neg_limit)
  /\ last' = [NoCall EXCEPT !.op = "reset"]
  /\ UNCHANGED <<cls, mpid, lpi, lat>>

PIDSetLimitsCall ==
  /\ cls = "pid"
  /\ \E lim \in LimitPairs :
       /\ pid' = PIDSetLimits(pid, lim[1], lim[2])
       /\ fresh' = PIDSetLimits(fresh, lim[1], lim[2])
  /\ last' = [NoCall EXCEPT !.op = "set_limits"]
  /\ UNCHANGED <<cls, mpid, lpi, lat>>

(***************************************************************************)
(* MultiIntegralPIDController: the session starts before __init__.         *)
(***************************************************************************)
\* the k_i list of n elements tried: a table over the speeds 0 and 1 first,
\* then the number 1, and so on in turn
KiList(n) ==
  [j \in 1..n |-> IF j % 2 = 1 THEN [num |-> FALSE, v |-> <<(<<0, 1>>), (<<1, 2>>)>>]
                  ELSE [num |-> TRUE, v |-> 1]]

\* the k_i arguments tried: lists and tuples of up to MaxN elements, the
\* empty ones included, and a bare number
KiArgs ==
  {[kind |-> k, items |-> KiList(n)] : k \in {"list", "tuple"}, n \in 0..MaxN}
    \cup {[kind |-> "number", items |-> <<[num |-> TRUE, v |-> 1]>>]}

InitMulti ==
  /\ cls = "multi"
  /\ mpid = Unbuilt
  /\ pid = 0 /\ lpi = 0 /\ lat = 0
  /\ fresh = Unbuilt
  /\ last = NoCall

MultiConstruct ==
  /\ cls = "multi"
  /\ mpid.status = "new"
  /\ \E k_i \in KiArgs, lim \in {<<5, -5>>} :
       /\ mpid' = MultiNew(Table(1), k_i, 1, Table(0), lim[1], lim[2])
       /\ last' = [NoCall EXCEPT !.op = "construct", !.arg = k_i, !.run = 0]
  /\ fresh' = mpid'
  /\ UNCHANGED <<cls, pid, lpi, lat>>

MultiUpdateCall ==
  /\ cls = "multi"
  /\ mpid.status = "ok"
  /\ \E error \in -MaxMultiErr..MaxMultiErr, error_rate \in {1}, speed \in {0, 1},
        feedforward \in {0, 1}, freeze_integrator \in BOOLEAN :
       /\ mpid' = MultiUpdate(mpid, error, error_rate, speed, feedforward, freeze_integrator)
       /\ fresh' = MultiUpdate(fresh, error, error_rate, speed, feedforward, freeze_integrator)
       /\ last' = [NoCall EXCEPT
                     !.op = "update", !.error = error, !.freeze = freeze_integrator,
                     !.run = IF /\ last.run >= 0 /\ error = 1 /\ ~freeze_integrator
                                /\ MultiWithinLimits(mpid', Cascade(mpid.error_integral,
                                                                   error, mpid.i_rate, 1))
                             THEN last.run + 1 ELSE -1]
  /\ \A j \in 1..mpid.n_integrators : Abs(mpid'.error_integral[j]) <= MaxIntegral
  /\ UNCHANGED <<cls, pid, lpi, lat>>

\* the k_i argument that builds again the object s
SameKi(s) ==
  [kind |-> "list",
   items |-> [j \in 1..s.n_integrators |-> [num |-> FALSE, v |-> s.k_i_list[j]]]]

MultiResetCall ==
  /\ cls = "multi"
  /\ mpid.status = "ok"
  /\ mpid' = MultiReset(mpid)
  /\ fresh' = MultiNew(mpid.k_p, SameKi(mpid), mpid.k_f, mpid.k_d,
                       mpid.pos_limit, mpid.neg_limit)
  /\ last' = [NoCall EXCEPT !.op = "reset", !.run = 0]
  /\ UNCHANGED <<cls, pid, lpi, lat>>

MultiSetLimitsCall ==
  /\ cls = "multi"
  /\ mpid.status = "ok"
  /\ \E lim \in {<<2, -2>>, <<5, -5>>} :
       /\ mpid' = MultiSetLimits(mpid, lim[1], lim[2])
       /\ fresh' = MultiSetLimits(fresh, lim[1], lim[2])
  /\ last' = [NoCall EXCEPT !.op = "set_limits", !.run = last.run]
  /\ UNCHANGED <<cls, pid, lpi, lat>>

(***************************************************************************)
(* LateralErrorPI.  Its limits are given in tenths.                        *)
(***************************************************************************)
LPITenth == GainScale * GainScale

\* the legacy k_i tables the controller is built with, over the speeds 0, 1:
\* the gains 1.0 to 2.0 and 0.8 to 1.5
LegacyKiTables ==
  {<<(<<0, 1>>), (<<GainScale, 2 * GainScale>>)>>,
   <<(<<0, 1>>), (<<(4 * GainScale) \div 5, (3 * GainScale) \div 2>>)>>}

InitLPI ==
  /\ cls = "lpi"
  /\ \E lim \in {<<3, -3>>}, k_i \in LegacyKiTables :
       lpi = LPINew(Table(GainScale), k_i,
                    0, Table(0), lim[1] * LPITenth, lim[2] * LPITenth)
  /\ pid = 0 /\ mpid = 0 /\ lat = 0
  /\ fresh = lpi
  /\ last = NoCall

LPIUpdateCall ==
  /\ cls = "lpi"
  /\ \E error \in -MaxLatErr..MaxLatErr, error_rate \in {1}, speed \in {0, 1},
        override \in BOOLEAN, feedforward \in {1}, reset_integrator \in BOOLEAN :
     \* the override branch reads neither yaw_rate nor freeze_integrator, and
     \* freeze_integrator is not read when reset_integrator is True
     \E yaw_rate \in (IF override THEN {0} ELSE {0, 1}),
        freeze_integrator \in (IF override \/ reset_integrator THEN {FALSE} ELSE BOOLEAN) :
       /\ lpi' = LPIUpdate(lpi, error, yaw_rate, error_rate, speed, override,
                           feedforward, freeze_integrator, reset_integrator)
       /\ fresh' = LPIUpdate(fresh, error, yaw_rate, error_rate, speed, override,
                             feedforward, freeze_integrator, reset_integrator)
       /\ last' = [NoCall EXCEPT !.op = "update", !.error = error,
                                 !.freeze = freeze_integrator, !.override = override,
                                 !.reset_integrator = reset_integrator,
                                 !.arg = yaw_rate]
  /\ Abs(lpi'.e) <= MaxE /\ Abs(lpi'.e_dot) <= MaxE
  /\ UNCHANGED <<cls, pid, mpid, lat>>

LPIResetCall ==
  /\ cls = "lpi"
  /\ lpi' = LPIReset(lpi)
  /\ fresh' = LPINew(lpi.k_p, lpi.k_i, lpi.k_f, lpi.k_d, lpi.pos_limit, lpi.neg_limit)
  /\ last' = [NoCall EXCEPT !.op = "reset"]
  /\ UNCHANGED <<cls, pid, mpid, lat>>

(***************************************************************************)
(* LatControlTorque, with its internal PIDController in pid.               *)
(***************************************************************************)
InitTorque ==
  /\ cls = "torque"
  /\ \E use_steering_angle \in BOOLEAN :
       lat = LatNew(use_steering_angle, StMax, 1)
  /\ pid = LatPIDNew(1, 1, 0)
  /\ mpid = 0 /\ lpi = 0
  /\ fresh = 0
  /\ last = NoCall

\* the <<steer_limited, CS.steeringPressed, CS.vEgo>> passed to update: none
\* of the three freeze conditions, and each of them alone
FreezeArgs == {<<FALSE, FALSE, 5>>, <<TRUE, FALSE, 5>>, <<FALSE, TRUE, 5>>, <<FALSE, FALSE, 2>>}

LatUpdateCall ==
  /\ cls = "torque"
  /\ \E active \in BOOLEAN, fa \in FreezeArgs,
        desired_curvature \in -MaxCurv..MaxCurv,
        desired_curvature_rate \in {0}, curv_vm \in {0, 1},
        curv_llk \in (IF lat.use_steering_angle THEN {0} ELSE {0, 1}),
        curv_deadzone \in (IF lat.use_steering_angle THEN {0, 1} ELSE {0}),
        feedback_term \in {0}, gain \in {1} :
       LET steer_limited == fa[1]
           steeringPressed == fa[2]
           vEgo == fa[3]
           r == LatUpdate(lat, pid, active, vEgo, steeringPressed, steer_limited,
                          desired_curvature, desired_curvature_rate, curv_vm,
                          curv_llk, curv_deadzone, feedback_term, gain)
       IN  /\ lat' = r[1]
           /\ pid' = r[2]
           /\ last' = [NoCall EXCEPT
                         !.op = "update", !.active = active,
                         !.error = IF active
                                   THEN LatError(lat, vEgo, desired_curvature, curv_vm, curv_llk)
                                   ELSE 0,
                         !.arg = <<steer_limited, steeringPressed, vEgo>>]
  /\ Abs(pid'.i) <= MaxTorqueI
  /\ UNCHANGED <<cls, mpid, lpi, fresh>>

LatLiveParamsCall ==
  /\ cls = "torque"
  /\ \E friction \in 0..MaxFriction :
       lat' = LatUpdateLiveTorqueParams(lat, friction)
  /\ last' = [NoCall EXCEPT !.op = "update_live_torque_params"]
  /\ UNCHANGED <<cls, pid, mpid, lpi, fresh>>

Init == InitPID \/ InitMulti \/ InitLPI \/ InitTorque

NextPID == PIDUpdateCall \/ PIDResetCall \/ PIDSetLimitsCall

\* a PIDController whose limits stay those it was built with
NextPIDFixed == PIDUpdateCall \/ PIDResetCall

NextMulti == MultiConstruct \/ MultiUpdateCall \/ MultiResetCall \/ MultiSetLimitsCall

NextLPI == LPIUpdateCall \/ LPIResetCall

NextTorque == LatUpdateCall \/ LatLiveParamsCall

Next ==
  \/ PIDUpdateCall
  \/ PIDResetCall
  \/ PIDSetLimitsCall
  \/ MultiConstruct
  \/ MultiUpdateCall
  \/ MultiResetCall
  \/ MultiSetLimitsCall
  \/ LPIUpdateCall
  \/ LPIResetCall
  \/ LatUpdateCall
  \/ LatLiveParamsCall

Spec == Init /\ [][Next]_vars

\* one class at a time
SpecPID == InitPID /\ [][NextPID]_vars

SpecPIDFixed == InitPID /\ [][NextPIDFixed]_vars

SpecMulti == InitMulti /\ [][NextMulti]_vars

SpecLPI == InitLPI /\ [][NextLPI]_vars

SpecTorque == InitTorque /\ [][NextTorque]_vars

(***************************************************************************)
(* Properties.                                                             *)
(***************************************************************************)
\* the unclipped total p + i + d + f of the last update
PIDTotal == pid.p + pid.i + pid.d + pid.f

MultiTotal == mpid.p + mpid.d + mpid.f + mpid.i

LPITotal == lpi.p + lpi.i + lpi.d + lpi.f

\* C1: with neg_limit <= pos_limit, the value an update of any of the three
\* controllers returns and stores in control lies in [neg_limit, pos_limit].
C1_OutputWithinLimits ==
  last.op = "update" =>
    /\ cls = "pid" /\ pid.neg_limit <= pid.pos_limit =>
         pid.neg_limit <= pid.control /\ pid.control <= pid.pos_limit
    /\ cls = "multi" /\ mpid.neg_limit <= mpid.pos_limit =>
         mpid.neg_limit <= mpid.control /\ mpid.control <= mpid.pos_limit
    /\ cls = "lpi" /\ lpi.neg_limit <= lpi.pos_limit =>
         lpi.neg_limit <= lpi.control /\ lpi.control <= lpi.pos_limit

\* an update of a PIDController whose unclipped total is above pos_limit
C1_Witness ==
  /\ cls = "pid" /\ last.op = "update"
  /\ pid.neg_limit <= pid.pos_limit
  /\ PIDTotal > pid.pos_limit
  /\ pid.control = pid.pos_limit

\* C2: an active LatControlTorque.update returns a steering command in
\* [-steer_max, steer_max].
C2_SteerWithinActuatorLimits ==
  cls = "torque" /\ last.op = "update" /\ last.active =>
    -lat.steer_max <= lat.output /\ lat.output <= lat.steer_max

\* C3: a PIDController.update with freeze_integrator = True leaves the
\* integral term as it was, so N such calls in a row leave it as it was
\* before the first.
C3_FrozenIntegralUnchanged ==
  [][cls = "pid" /\ last'.op = "update" /\ last'.freeze => pid'.i = pid.i]_vars

\* a frozen update with a nonzero error on a nonzero integral
C3_Witness ==
  /\ cls = "pid" /\ last.op = "update" /\ last.freeze
  /\ last.error # 0 /\ pid.i # 0

\* C4 as claimed, for limits with neg_limit <= 0 <= pos_limit: in an unfrozen
\* PIDController.update, a tentative total above pos_limit means the integral
\* does not increase, and one below neg_limit means it does not decrease.
C4_AsClaimed ==
  [][cls = "pid" /\ last'.op = "update" /\ ~last'.freeze
        /\ pid'.neg_limit <= 0 /\ 0 <= pid'.pos_limit =>
       LET test_control == PIDTestControl(pid', pid.i, last'.error)
       IN  /\ test_control > pid'.pos_limit => pid'.i <= pid.i
           /\ test_control < pid'.neg_limit => pid'.i >= pid.i]_vars

\* C4, amended: in an unfrozen PIDController.update, a tentative total above
\* pos_limit means the integral does not increase; one below neg_limit means
\* it does not decrease, provided the integral before the call was no greater
\* than pos_limit.
C4_AntiWindup ==
  [][cls = "pid" /\ last'.op = "update" /\ ~last'.freeze =>
       LET test_control == PIDTestControl(pid', pid.i, last'.error)
       IN  /\ test_control > pid'.pos_limit => pid'.i <= pid.i
           /\ test_control < pid'.neg_limit /\ pid.i <= pid'.pos_limit =>
                pid'.i >= pid.i]_vars

\* an unfrozen update with a positive error whose total is above pos_limit
\* while the integral is inside the limits: the tentative total, larger still,
\* was above pos_limit and the integral was held
C4_Witness ==
  /\ cls = "pid" /\ last.op = "update" /\ ~last.freeze /\ last.error > 0
  /\ pid.neg_limit < pid.i /\ pid.i <= pid.pos_limit
  /\ PIDTotal > pid.pos_limit

\* C5: a MultiIntegralPIDController.update commits the whole chain of
\* tentative integrator states when it is not frozen and the tentative total
\* is within the limits, and otherwise leaves every integrator state as it was.
C5_AtomicCommit ==
  [][cls = "multi" /\ last'.op = "update" =>
       LET new_integrals == Cascade(mpid.error_integral, last'.error, mpid.i_rate, 1)
       IN  IF ~last'.freeze /\ MultiWithinLimits(mpid', new_integrals)
           THEN mpid'.error_integral = new_integrals
           ELSE mpid'.error_integral = mpid.error_integral]_vars

\* an unfrozen update of a chain of two with a nonzero error, whose total is
\* above pos_limit: had the chain been committed, the total would be the
\* tentative total, within the limits; so the chain was held by saturation
C5_Witness ==
  /\ cls = "multi" /\ last.op = "update" /\ ~last.freeze /\ last.error # 0
  /\ mpid.n_integrators = 2
  /\ mpid.error_integral[1] # 0 /\ mpid.error_integral[2] # 0
  /\ MultiTotal > mpid.pos_limit

\* C6 as claimed: after a LateralErrorPI.update with reset_integrator = True,
\* e = 0 and e_dot = 0, whatever the other arguments.
C6_AsClaimed ==
  cls = "lpi" /\ last.op = "update" /\ last.reset_integrator =>
    lpi.e = 0 /\ lpi.e_dot = 0

\* C6, amended: after a LateralErrorPI.update with reset_integrator = True
\* and override = False, e = 0 and e_dot = 0.
C6_ResetIntegrator ==
  cls = "lpi" /\ last.op = "update" /\ last.reset_integrator /\ ~last.override =>
    lpi.e = 0 /\ lpi.e_dot = 0

\* such an update; its integral term, computed from the state before the
\* call, shows that state was not zero
C6_Witness ==
  /\ cls = "lpi" /\ last.op = "update" /\ last.reset_integrator /\ ~last.override
  /\ lpi.i # 0
  /\ lpi.e = 0 /\ lpi.e_dot = 0

\* C7: in a LateralErrorPI.update with override = True, a nonzero e moves
\* towards zero by the unwind rate without passing it, and a zero e stays zero.
C7_UnwindNoOvershoot ==
  [][cls = "lpi" /\ last'.op = "update" /\ last'.override =>
       IF lpi.e = 0 THEN lpi'.e = 0
       ELSE /\ Abs(lpi'.e) < Abs(lpi.e)
            /\ lpi'.e * lpi.e >= 0]_vars

\* C8: MultiIntegralPIDController.__init__ fails, leaving no controller
\* state, for a k_i that is empty or no list or tuple; for any other k_i it
\* yields len(k_i) integrator states, all zero.
C8_Construction ==
  cls = "multi" /\ last.op = "construct" =>
    IF last.arg.kind \notin {"list", "tuple"} \/ Len(last.arg.items) = 0
    THEN mpid.status = "error" /\ DOMAIN mpid = {"status"}
    ELSE /\ mpid.status = "ok"
         /\ mpid.n_integrators = Len(last.arg.items)
         /\ Len(mpid.error_integral) = Len(last.arg.items)
         /\ \A j \in 1..Len(mpid.error_integral) : mpid.error_integral[j] = 0

\* the empty list is refused
C8_Witness ==
  /\ cls = "multi" /\ last.op = "construct"
  /\ last.arg.kind = "list" /\ last.arg.items = <<>>
  /\ mpid.status = "error"

\* C9: from reset() on, the controller returns the same outputs and holds the
\* same integral states as a controller built anew with the same gains and
\* limits and given the same calls.
C9_ResetIsFresh ==
  /\ cls = "pid" => pid.control = fresh.control /\ pid.i = fresh.i
  /\ cls = "multi" /\ mpid.status = "ok" =>
       /\ mpid.control = fresh.control
       /\ mpid.i = fresh.i
       /\ mpid.error_integral = fresh.error_integral
  /\ cls = "lpi" =>
       lpi.control = fresh.control /\ lpi.e = fresh.e /\ lpi.e_dot = fresh.e_dot

\* reset() on a PIDController that updates have run on (they left speed 2),
\* beside the controller built anew (speed 0.0)
C9_Witness ==
  /\ cls = "pid" /\ last.op = "reset"
  /\ pid.speed = 2 /\ fresh.speed = 0
  /\ pid.i = 0 /\ pid.control = 0

\* C10: set_limits of a PIDController or a MultiIntegralPIDController leaves
\* p, i, d, f, control and every integrator state as they were.
C10_SetLimitsFrame ==
  [][last'.op = "set_limits" =>
       /\ cls = "pid" =>
            /\ pid'.p = pid.p /\ pid'.i = pid.i /\ pid'.d = pid.d
            /\ pid'.f = pid.f /\ pid'.control = pid.control
       /\ cls = "multi" =>
            /\ mpid'.p = mpid.p /\ mpid'.i = mpid.i /\ mpid'.d = mpid.d
            /\ mpid'.f = mpid.f /\ mpid'.control = mpid.control
            /\ mpid'.error_integral = mpid.error_integral]_vars

\* set_limits to a pair the integral and the stored control lie outside of
C10_Witness ==
  /\ cls = "pid" /\ last.op = "set_limits"
  /\ pid.i > pid.pos_limit /\ pid.control > pid.pos_limit
  /\ pid.neg_limit <= pid.pos_limit

\* C11: an active LatControlTorque.update with steer_limited, or with the
\* driver pressing the steering, or with vEgo < 5, leaves the internal PID's
\* integral term as it was; an active update with none of the three
\* integrates: the integral term advances by error * k_i * dt.
C11_FreezeConditions ==
  [][cls = "torque" /\ last'.op = "update" /\ last'.active =>
       IF last'.arg[1] \/ last'.arg[2] \/ last'.arg[3] < 5
       THEN pid'.i = pid.i
       ELSE pid'.i = pid.i + last'.error * PID_k_i(pid') * pid'.i_rate]_vars

\* an active update at low speed alone, with a nonzero error, on an integral
\* that an earlier update had advanced
C11_Witness ==
  /\ cls = "torque" /\ last.op = "update" /\ last.active
  /\ ~last.arg[1] /\ ~last.arg[2] /\ last.arg[3] < 5
  /\ last.error # 0 /\ pid.i # 0

\* C12: a MultiIntegralPIDController.update that commits advances integrator
\* 0 by error * dt and each integrator j > 0 by dt times the new value of
\* integrator j-1; hence after n updates from __init__ or reset(), each with
\* error 1, unfrozen and within the limits, integrator 0 holds n * dt.
C12_Cascade ==
  [][cls = "multi" /\ last'.op = "update" =>
       /\ ~last'.freeze /\ mpid'.error_integral # mpid.error_integral =>
            \A j \in 1..mpid.n_integrators :
              mpid'.error_integral[j] =
                mpid.error_integral[j]
                  + (IF j = 1 THEN last'.error ELSE mpid'.error_integral[j - 1])
                      * mpid.i_rate
       /\ last'.run >= 0 => mpid'.error_integral[1] = last'.run * mpid.i_rate]_vars

\* the first update with error 1 on a chain of two, committed: the second
\* integrator, fed the new value of the first, has advanced as well
C12_Witness ==
  /\ cls = "multi" /\ last.op = "update" /\ last.run = 1
  /\ mpid.n_integrators = 2
  /\ mpid.error_integral = <<mpid.i_rate, mpid.i_rate * mpid.i_rate>>

\* C13 as claimed: the gains derived from the legacy gain old_k_i satisfy
\* old_k_i^2 = k_i^2 + k_ii * (1 + alpha/4) with alpha = 0.25, up to the
\* rounding of the derivation (here 16 * old_k_i^2 = 16 * k_i^2 + 17 * k_ii,
\* with old_k_i^2 rounded by at most 2 * old_k_i).
C13_AsClaimed ==
  cls = "lpi" =>
    LET old_k_i == LPI_old_k_i(lpi)
        g == LPI_k_i__and__k_ii(lpi)
    IN  Abs(16 * old_k_i * old_k_i - (16 * g[1] * g[1] + 17 * g[2])) <= 16 * 2 * old_k_i

\* C13, amended: the gains derived from the legacy gain old_k_i satisfy
\* old_k_i^2 = k_i^2 + k_ii, with k_ii = k_i^2 * alpha / 4, up to the rounding
\* of the derivation.
C13_GainIdentity ==
  cls = "lpi" =>
    LET old_k_i == LPI_old_k_i(lpi)
        g == LPI_k_i__and__k_ii(lpi)
    IN  /\ Abs(old_k_i * old_k_i - (g[1] * g[1] + g[2])) <= 2 * old_k_i
        /\ Abs(16 * g[2] - g[1] * g[1]) <= 2 * old_k_i

\* a non-override update at speed 1 of the controller with the legacy gains
\* 0.8 to 1.5, on a nonzero state: the derived gains made its integral term
C13_Witness ==
  /\ cls = "lpi" /\ last.op = "update" /\ ~last.override
  /\ lpi.speed = 1 /\ LPI_old_k_i(lpi) = (3 * GainScale) \div 2
  /\ lpi.i # 0

\* C14: in a LateralErrorPI.update with override, reset_integrator and
\* freeze_integrator all False, the forced advance of (e, e_dot) is committed
\* exactly when error >= 0 and (C <= pos_limit or I < 0), or error <= 0 and
\* (C >= neg_limit or I > 0), where I is the integral term of the candidate
\* advanced (e, e_dot) and C the control made with it; otherwise the state
\* takes the step without the error.
C14_CommitFromCandidate ==
  [][cls = "lpi" /\ last'.op = "update" /\ ~last'.override
        /\ ~last'.reset_integrator /\ ~last'.freeze =>
       LET error == last'.error
           yaw_rate == last'.arg
           e == lpi.e + lpi.e_dot * lpi.i_rate
           e_dot == lpi.e_dot + (-(yaw_rate * yaw_rate) * e + error) * lpi.i_rate
           I == LPIIntegralTerm(lpi', e, e_dot)
           C == lpi'.p + I + lpi'.d + lpi'.f
       IN  IF \/ error >= 0 /\ (C <= lpi'.pos_limit \/ I < 0)
              \/ error <= 0 /\ (C >= lpi'.neg_limit \/ I > 0)
           THEN lpi'.e = e /\ lpi'.e_dot = e_dot
           ELSE /\ lpi'.e = e
                /\ lpi'.e_dot = lpi.e_dot - (yaw_rate * yaw_rate) * e * lpi.i_rate]_vars

\* C15: in a LateralErrorPI.update with override and reset_integrator False,
\* when the forced advance is not committed (freeze_integrator is True or the
\* test of the control against the limits fails), the state takes the step
\* without the error: e' = e + e_dot * dt, e_dot' = e_dot - yaw_rate^2 * e' * dt.
C15_RotationOnlyStep ==
  [][cls = "lpi" /\ last'.op = "update" /\ ~last'.override
        /\ ~last'.reset_integrator =>
       LET error == last'.error
           yaw_rate == last'.arg
           control == lpi'.p + lpi'.i + lpi'.d + lpi'.f
           committed ==
             /\ \/ error >= 0 /\ (control <= lpi'.pos_limit \/ lpi'.i < 0)
                \/ error <= 0 /\ (control >= lpi'.neg_limit \/ lpi'.i > 0)
             /\ ~last'.freeze
       IN  ~committed =>
             /\ lpi'.e = lpi.e + lpi.e_dot * lpi.i_rate
             /\ lpi'.e_dot = lpi.e_dot - (yaw_rate * yaw_rate) * lpi'.e * lpi.i_rate]_vars

\* an unfrozen update with a positive error and a nonzero yaw_rate whose
\* control is above pos_limit with a positive integral term: the advance was
\* not committed, and the state is no longer the one the term was made from
C15_Witness ==
  /\ cls = "lpi" /\ last.op = "update" /\ ~last.override
  /\ ~last.reset_integrator /\ ~last.freeze
  /\ last.error > 0 /\ last.arg # 0
  /\ LPITotal > lpi.pos_limit /\ lpi.i > 0
  /\ LPIIntegralTerm(lpi, lpi.e, lpi.e_dot) # lpi.i

\* C16: of two consecutive non-override LateralErrorPI.update cycles at one
\* speed, each with its unclipped control above pos_limit, error >= 0 and an
\* integral term >= 0, the second has an integral term e * k_ii + e_dot * k_i
\* no greater than the first; likewise, saturated low, no smaller.
C16_AntiWindup ==
  [][cls = "lpi" /\ last.op = "update" /\ ~last.override
        /\ last'.op = "update" /\ ~last'.override /\ lpi'.speed = lpi.speed =>
       /\ (/\ LPITotal > lpi.pos_limit /\ last.error >= 0 /\ lpi.i >= 0
           /\ LPITotal' > lpi'.pos_limit /\ last'.error >= 0 /\ lpi'.i >= 0)
            => lpi'.i <= lpi.i
       /\ (/\ LPITotal < lpi.neg_limit /\ last.error <= 0 /\ lpi.i <= 0
           /\ LPITotal' < lpi'.neg_limit /\ last'.error <= 0 /\ lpi'.i <= 0)
            => lpi'.i >= lpi.i]_vars

\* C17 as claimed: after an unfrozen PIDController.update whose tentative
\* total p + (i + error * k_i * dt) + d + f lies in [neg_limit, pos_limit],
\* the integral term is the unclamped candidate i + error * k_i * dt.
C17_AsClaimed ==
  [][cls = "pid" /\ last'.op = "update" /\ ~last'.freeze =>
       LET candidate == pid.i + last'.error * PID_k_i(pid') * pid'.i_rate
           test_control == PIDTestControl(pid', pid.i, last'.error)
       IN  pid'.neg_limit <= test_control /\ test_control <= pid'.pos_limit =>
             pid'.i = candidate]_vars

\* C17, amended: after such an update the integral term is the candidate
\* clipped to [neg_limit, pos_limit]: the candidate itself when it lies
\* within the limits, pos_limit when it is above, neg_limit when it is below.
C17_CandidateWithinLimits ==
  [][cls = "pid" /\ last'.op = "update" /\ ~last'.freeze =>
       LET candidate == pid.i + last'.error * PID_k_i(pid') * pid'.i_rate
           test_control == PIDTestControl(pid', pid.i, last'.error)
       IN  pid'.neg_limit <= test_control /\ test_control <= pid'.pos_limit =>
             /\ pid'.neg_limit <= candidate /\ candidate <= pid'.pos_limit =>
                  pid'.i = candidate
             /\ candidate > pid'.pos_limit => pid'.i = pid'.pos_limit
             /\ candidate < pid'.neg_limit => pid'.i = pid'.neg_limit]_vars

\* an unfrozen update with a negative error that left the integral at
\* neg_limit = -2 with a total of -2, within the limits: p is at most -1, so
\* the integral was above neg_limit before the call and the step was taken
C17_Witness ==
  /\ cls = "pid" /\ last.op = "update" /\ ~last.freeze /\ last.error < 0
  /\ pid.neg_limit = -2 /\ pid.pos_limit = 2
  /\ pid.i = -1 /\ PIDTotal = -2

\* C18: a PIDController built with neg_limit <= 0 <= pos_limit, on which only
\* update (frozen or not) and reset are called, has its integral term in
\* [neg_limit, pos_limit] in every state.
C18_IntegralWithinLimits ==
  cls = "pid" /\ pid.neg_limit <= 0 /\ 0 <= pid.pos_limit =>
    pid.neg_limit <= pid.i /\ pid.i <= pid.pos_limit

\* an unfrozen update with a positive error on an integral at pos_limit
C18_Witness ==
  /\ cls = "pid" /\ last.op = "update" /\ ~last.freeze /\ last.error > 0
  /\ pid.neg_limit <= 0 /\ 0 <= pid.pos_limit
  /\ pid.i = pid.pos_limit /\ PIDTotal > pid.pos_limit

\* C19: a LatControlTorque.update with active = False returns a steering
\* command of zero and a second value of 0.0 and leaves the internal PID's
\* p, i, d, f and control as they were.
C19_InactiveFrame ==
  [][cls = "torque" /\ last'.op = "update" /\ ~last'.active =>
       /\ lat'.output = 0 /\ lat'.second = 0
       /\ pid'.p = pid.p /\ pid'.i = pid.i /\ pid'.d = pid.d
       /\ pid'.f = pid.f /\ pid'.control = pid.control]_vars

\* an inactive update after active ones that accumulated an integral: the
\* integral and the control are still there
C19_Witness ==
  /\ cls = "torque" /\ last.op = "update" /\ ~last.active
  /\ lat.output = 0
  /\ pid.i # 0 /\ pid.control # 0

\* C20: a LateralErrorPI.update with override = True stores i = 0 and returns
\* clip(p + d + f, neg_limit, pos_limit), whatever e and e_dot are; an update
\* with override = False makes the integral term e * k_ii + e_dot * k_i from
\* the e and e_dot held before the call.
C20_OverrideIntegralZero ==
  [][cls = "lpi" /\ last'.op = "update" =>
       IF last'.override
       THEN /\ lpi'.i = 0
            /\ lpi'.control =
                 Max(lpi'.neg_limit, Min(lpi'.pos_limit, lpi'.p + lpi'.d + lpi'.f))
       ELSE LET g == LPI_k_i__and__k_ii(lpi')
            IN  lpi'.i = lpi.e * g[2] + lpi.e_dot * g[1] * GainScale]_vars

\* an override update that left e and e_dot nonzero (the unwind leaves a zero
\* at zero, so they were nonzero before it too) and returned a nonzero control
C20_Witness ==
  /\ cls = "lpi" /\ last.op = "update" /\ last.override
  /\ lpi.e # 0 /\ lpi.e_dot # 0
  /\ lpi.i = 0 /\ lpi.control # 0

====
